---- MODULE Spec2Model ----
(***************************************************************************)
(* Model of utils/team_matcher.py (class TeamMatcher): one generate_teams   *)
(* call is the pipeline                                                     *)
(*   create_feature_matrix -> cluster_participants -> balance_teams         *)
(*   (metric step, then ensure_leadership) -> format_teams.                 *)
(* A team is a Python list that mixes references to the participant dicts  *)
(* of self.participants with the metric dicts appended by the balance step: *)
(* an entry is a record tagged by the field "kind", a participant entry     *)
(* holding the position of its dict in self.participants.                   *)
(***************************************************************************)
EXTENDS Integers, Sequences, FiniteSets, TLC

\* ------------------------------------------------------------------ bounds
MaxN == 4               \* longest roster explored
MaxTeams == 3           \* largest requested num_teams explored
MaxEncoded == 3         \* longest roster given to the encoder alone
MaxPassed == 4          \* longest roster given to the leadership pass alone
MaxFormatted == 3       \* longest roster given to the formatter alone
MaxWords == 6           \* longest list of skills or interests of a formatted team

\* ------------------------------------------------------- program constants
NoName == 0             \* a participant dict without the key 'name'
NoError == [type |-> "none", msg |-> ""]
NotEnough == [type |-> "ValueError", msg |-> "Not enough participants to form teams"]
HstackError == [type |-> "ValueError", msg |-> "all the input arrays must have same number of dimensions"]
Unset == <<"<unset>">>  \* key skills_text / interests_text not written yet
Absent == "<absent>"    \* a participant dict without the key 'role_preference'

\* the team_size arguments explored
TeamSizes == {2, 3}

Priorities == {"Experience Balance", "Role Diversity", "Skill Diversity",
               "Interest Alignment", "Other"}

roles == <<"Frontend Developer", "Backend Developer", "Full Stack Developer",
           "Data Scientist", "ML Engineer", "Designer", "Product Manager", "DevOps">>

ExpLevels == <<"Beginner", "Intermediate", "Advanced", "Expert">>

\* exp_mapping.get(level, 1)
exp_mapping(level) ==
    CASE level = "Beginner" -> 1
      [] level = "Intermediate" -> 2
      [] level = "Advanced" -> 3
      [] level = "Expert" -> 4
      [] OTHER -> 1

Min(a, b) == IF a <= b THEN a ELSE b

\* ------------------------------------------------------------ sequences
RECURSIVE SumSeq(_)
SumSeq(s) == IF s = <<>> THEN 0 ELSE Head(s) + SumSeq(Tail(s))

RECURSIVE Flatten(_)
Flatten(ss) == IF ss = <<>> THEN <<>> ELSE Head(ss) \o Flatten(Tail(ss))

Range(s) == {s[i] : i \in DOMAIN s}

\* --------------------------------------------------------- participants
\* The roster of the model: participant i carries the name i, and its
\* experience, role, languages and interests are fixed by its position; the
\* leadership flags range over every subset of the roster.
ProfileLangs(i) == IF i % 3 = 0 THEN <<>> ELSE IF i % 3 = 1 THEN <<"Python">> ELSE <<"Go", "Python">>
ProfileInterests(i) == IF i % 2 = 0 THEN <<"AI">> ELSE <<"Web", "AI">>

Participant(i, leader) ==
    [name |-> i,
     leadership_interest |-> leader,
     experience_level |-> ExpLevels[((i - 1) % 4) + 1],
     role_preference |-> roles[((i - 1) % 3) + 1],
     programming_langs |-> ProfileLangs(i),
     frameworks |-> <<>>,
     interests |-> ProfileInterests(i),
     skills_text |-> Unset,
     interests_text |-> Unset]

Roster(n, leaders) == [i \in 1..n |-> Participant(i, i \in leaders)]

VARIABLES
    participants,        \* self.participants
    num_teams,           \* argument num_teams
    team_size,           \* argument team_size
    balance_priority,    \* argument balance_priority
    include_leadership,  \* argument include_leadership
    pc,                  \* position inside generate_teams
    feature_matrix,      \* rows built by create_feature_matrix
    cluster_labels,      \* kmeans.fit_predict(feature_matrix)
    teams,               \* the list of team lists
    formatted_teams,     \* the value returned to the caller
    returned,            \* generate_teams returned a value
    error,               \* the exception raised to the caller
    call,                \* number of the generate_teams call in progress
    first_result,        \* what the first call returned or raised
    kmeans_fit           \* the labels KMeans gave, by (matrix, k, random_state)

vars == <<participants, num_teams, team_size, balance_priority, include_leadership, pc,
          feature_matrix, cluster_labels, teams, formatted_teams, returned, error,
          call, first_result, kmeans_fit>>

calls == <<call, first_result>>

inputs == <<num_teams, team_size, balance_priority, include_leadership>>

n_participants == Len(participants)

\* a team entry that refers to self.participants[i - 1]
Ref(i) == [kind |-> "participant", ref |-> i]

\* dict access on a team entry (participant dict or metric dict)
IsParticipant(m) == m.kind = "participant"
\* 'name' in member
HasName(m) == IsParticipant(m) /\ participants[m.ref].name # NoName
\* member.get('leadership_interest', False)
LeadershipInterest(m) == IsParticipant(m) /\ participants[m.ref].leadership_interest
\* exp_mapping.get(member.get('experience_level', 'Beginner'), 1)
ExperienceScore(m) == IF IsParticipant(m) THEN exp_mapping(participants[m.ref].experience_level) ELSE 1
\* member.get('role_preference', default)
RolePreference(m, default) ==
    IF IsParticipant(m) /\ participants[m.ref].role_preference # Absent
    THEN participants[m.ref].role_preference ELSE default
\* member.get('programming_langs', []), member.get('frameworks', []), member.get('interests', [])
Langs(m) == IF IsParticipant(m) THEN participants[m.ref].programming_langs ELSE <<>>
Frameworks(m) == IF IsParticipant(m) THEN participants[m.ref].frameworks ELSE <<>>
Interests(m) == IF IsParticipant(m) THEN participants[m.ref].interests ELSE <<>>

\* ------------------------------------------------ create_feature_matrix
\* role_vector = [1 if role == r else 0 for r in roles]
role_vector(role) == [j \in 1..Len(roles) |-> IF role = roles[j] THEN 1 ELSE 0]

\* the structured part of one row: experience score, leadership flag,
\* team_size_pref (absent in every roster of the model: the default 4) and
\* the role columns
feature_vector(p) ==
    <<exp_mapping(p.experience_level), IF p.leadership_interest THEN 1 ELSE 0, 4>>
        \o role_vector(IF p.role_preference = Absent THEN "Full Stack Developer" ELSE p.role_preference)

\* skills_text / interests_text: the lists joined by ' ' and lowercased;
\* the text is kept as its sequence of words
Lower(w) ==
    CASE w = "Python" -> "python"
      [] w = "Go" -> "go"
      [] w = "AI" -> "ai"
      [] w = "Web" -> "web"
      [] OTHER -> w
JoinLower(words) == [j \in DOMAIN words |-> Lower(words[j])]

WithText(p) ==
    [p EXCEPT !.skills_text = JoinLower(p.programming_langs \o p.frameworks),
              !.interests_text = JoinLower(p.interests)]

\* ---- create_tfidf_features
\* the lowercased words of the model in alphabetical order, the order of the
\* columns of TfidfVectorizer
WordOrder == <<"ai", "go", "none", "python", "web">>

\* variant: the sentinel is not a stop word
StopWords_without_none == {"go"}

\* stop_words='english': the words of the model that are on sklearn's list
StopWords == {"go", "none"}

\* text if text.strip() else 'none'
Sentinel(text) == IF text = <<>> THEN <<"none">> ELSE text

\* the vocabulary fitted on the documents: their words that are not stop words
Vocabulary(text_data) ==
    {w \in Range(WordOrder) : w \notin StopWords /\ \E i \in DOMAIN text_data : w \in Range(Sentinel(text_data[i]))}

\* variant: every document gets the columns of its own words only
create_tfidf_features_own_words(text_data) ==
    [i \in DOMAIN text_data |->
        LET columns == SelectSeq(WordOrder, LAMBDA w : w \notin StopWords /\ w \in Range(Sentinel(text_data[i])))
        IN IF columns = <<>> THEN <<0>> ELSE [c \in DOMAIN columns |-> 1]]

\* one row per document and one column per vocabulary word; a cell is kept as
\* the number of times the word occurs in the document (its tf-idf weight is
\* positive exactly when that number is). An empty vocabulary makes
\* fit_transform raise ValueError: np.zeros((len(text_data), 1)). The cap
\* max_features=50 is above the number of words of the model.
create_tfidf_features(text_data) ==
    LET columns == SelectSeq(WordOrder, LAMBDA w : w \in Vocabulary(text_data))
    IN [i \in DOMAIN text_data |->
          IF columns = <<>> THEN <<0>>
          ELSE [c \in DOMAIN columns |->
                  Cardinality({j \in DOMAIN Sentinel(text_data[i]) :
                                  Sentinel(text_data[i])[j] = columns[c]})]]

\* np.hstack([feature_matrix, skills_features, interests_features]) on
\* participants that carry their text
combined_features(ps) ==
    LET skills_features == create_tfidf_features([i \in DOMAIN ps |-> ps[i].skills_text])
        interests_features == create_tfidf_features([i \in DOMAIN ps |-> ps[i].interests_text])
    IN [i \in DOMAIN ps |-> feature_vector(ps[i]) \o skills_features[i] \o interests_features[i]]

\* np.hstack of the (n, 11) structured block with the two (n, c) text blocks.
\* With an empty roster np.array([]) has one dimension and the text blocks
\* (the zero matrix of the except branch) have two: hstack raises ValueError.
HstackFails(ps) == Len(ps) = 0

\* variant: the handler swallows the exception and returns what it has
Raise_returning(e) ==
    /\ pc' = "failed"
    /\ error' = e
    /\ formatted_teams' = <<>>
    /\ returned' = TRUE

\* except Exception as e: ...; raise e  (generate_teams): the exception of a
\* stage reaches the caller and nothing is returned
Raise(e) ==
    /\ pc' = "failed"
    /\ error' = e
    /\ UNCHANGED <<formatted_teams, returned>>

CreateFeatureMatrix ==
    /\ pc = "start"
    /\ participants' = [i \in DOMAIN participants |-> WithText(participants[i])]
    /\ IF HstackFails(participants)
       THEN /\ Raise(HstackError)
            /\ UNCHANGED feature_matrix
       ELSE /\ pc' = "encoded"
            /\ feature_matrix' = combined_features(participants')
            /\ UNCHANGED <<error, formatted_teams, returned>>
    /\ UNCHANGED <<inputs, cluster_labels, teams, calls, kmeans_fit>>

\* ------------------------------------------------- cluster_participants
\* variants: one participant per team; rounding up
max_possible_teams_all(n) == n
max_possible_teams_up(n) == (n + 1) \div 2

max_possible_teams(n) == n \div 2

\* variant: the requested count is used as it is
EffectiveTeams_uncapped(requested, n) == requested

\* num_teams = min(num_teams, max_possible_teams)
EffectiveTeams(requested, n) == Min(requested, max_possible_teams(n))

\* variant: the team size decides how many clusters fit
ClusterCount_by_size(requested, n, size) == Min(requested, n \div size)

\* cluster_participants(feature_matrix, num_teams, team_size): the number of
\* clusters it asks KMeans for; team_size is not read
ClusterCount(requested, n, size) == EffectiveTeams(requested, n)

\* teams[cluster_id] = [participants[i] for i, label in enumerate(labels) if label == cluster_id]
GroupByCluster(ps, labels, k) ==
    [c \in 1..k |-> LET idx == SelectSeq([i \in 1..Len(ps) |-> i], LAMBDA i : labels[i] = c - 1)
                    IN [j \in 1..Len(idx) |-> Ref(idx[j])]]

\* variant: a seed that differs from call to call
random_state_per_call(c) == 42 + c

\* KMeans(n_clusters=num_teams, random_state=42, n_init='auto')
random_state(c) == 42

\* kmeans.fit_predict(feature_matrix): one label in 0..k-1 per row. Which
\* labels is the library's choice, but with a fixed random_state it is a
\* function of the matrix and k: kmeans_fit remembers the labels given before.
ClusterParticipants ==
    /\ pc = "encoded"
    /\ LET k == ClusterCount(num_teams, n_participants, team_size)
           fit == <<feature_matrix, k, random_state(call)>>
       IN
       IF k <= 0
       THEN /\ Raise(NotEnough)
            /\ UNCHANGED <<cluster_labels, teams, kmeans_fit>>
       ELSE /\ \E labels \in [1..n_participants -> 0..(k - 1)] :
                /\ fit \in DOMAIN kmeans_fit => labels = kmeans_fit[fit]
                /\ cluster_labels' = labels
                /\ teams' = GroupByCluster(participants, labels, k)
                /\ kmeans_fit' = (fit :> labels) @@ kmeans_fit
            /\ pc' = "clustered"
            /\ UNCHANGED <<error, formatted_teams, returned>>
    /\ UNCHANGED <<participants, inputs, feature_matrix, calls>>

\* --------------------------------------------------------- balance_teams
\* np.mean of a list of integers, kept as the pair <<sum, count>>
\* (count 0: the nan numpy returns for an empty list)
Mean(scores) == <<SumSeq(scores), Len(scores)>>

Metric(key, value) == [kind |-> "metric", key |-> key, value |-> value]

\* pd.Series(values).value_counts().head(k).index.tolist(): the distinct
\* values by decreasing count, equal counts in order of first occurrence
Count(values, v) == Cardinality({i \in DOMAIN values : values[i] = v})

RECURSIVE Dedup(_)
Dedup(values) ==
    IF values = <<>> THEN <<>>
    ELSE LET rest == Dedup(SelectSeq(Tail(values), LAMBDA v : v # Head(values)))
         IN <<Head(values)>> \o rest

\* variant: among equal counts the value met last comes first
RECURSIVE SortByCount_last_tie(_, _)
SortByCount_last_tie(distinct, values) ==
    IF distinct = <<>> THEN <<>>
    ELSE LET best == CHOOSE i \in DOMAIN distinct :
                        /\ \A j \in DOMAIN distinct : Count(values, distinct[j]) <= Count(values, distinct[i])
                        /\ \A j \in (i + 1)..Len(distinct) : Count(values, distinct[j]) < Count(values, distinct[i])
         IN <<distinct[best]>>
              \o SortByCount_last_tie(SubSeq(distinct, 1, best - 1)
                                        \o SubSeq(distinct, best + 1, Len(distinct)), values)

RECURSIVE SortByCount(_, _)
SortByCount(distinct, values) ==
    IF distinct = <<>> THEN <<>>
    ELSE LET best == CHOOSE i \in DOMAIN distinct :
                        /\ \A j \in DOMAIN distinct : Count(values, distinct[j]) <= Count(values, distinct[i])
                        /\ \A j \in 1..(i - 1) : Count(values, distinct[j]) < Count(values, distinct[i])
         IN <<distinct[best]>>
              \o SortByCount(SubSeq(distinct, 1, best - 1) \o SubSeq(distinct, best + 1, Len(distinct)), values)

value_counts(values) == SortByCount(Dedup(values), values)
head(s, k) == SubSeq(s, 1, Min(k, Len(s)))

\* all_skills / all_interests: the lists of the members, concatenated
\* (programming_langs then frameworks of each member)
AllLangs(team) == Flatten([j \in DOMAIN team |-> Langs(team[j]) \o Frameworks(team[j])])
AllInterests(team) == Flatten([j \in DOMAIN team |-> Interests(team[j])])

\* variant: the step rebuilds each team without its first member
balance_experience_levels_dropping(ts) ==
    [i \in DOMAIN ts |->
        Append(IF ts[i] = <<>> THEN <<>> ELSE Tail(ts[i]),
               Metric("avg_experience", Mean([j \in DOMAIN ts[i] |-> ExperienceScore(ts[i][j])])))]

balance_experience_levels(ts) ==
    [i \in DOMAIN ts |->
        Append(ts[i], Metric("avg_experience",
                             Mean([j \in DOMAIN ts[i] |-> ExperienceScore(ts[i][j])])))]

\* variant: the metric entry is appended first and counted with the members
balance_roles_counting_entry(ts) ==
    [i \in DOMAIN ts |->
        LET unique_roles == Cardinality({RolePreference(ts[i][j], "") : j \in DOMAIN ts[i]} \cup {""})
        IN Append(ts[i], Metric("role_diversity", <<unique_roles, Len(ts[i]) + 1>>))]

\* unique_roles / len(team) if team else 0, kept as <<unique_roles, len(team)>>
balance_roles(ts) ==
    [i \in DOMAIN ts |->
        LET unique_roles == Cardinality({RolePreference(ts[i][j], "") : j \in DOMAIN ts[i]})
        IN Append(ts[i], Metric("role_diversity",
                                IF ts[i] # <<>> THEN <<unique_roles, Len(ts[i])>> ELSE <<0, 1>>))]

balance_skills(ts) ==
    [i \in DOMAIN ts |->
        Append(ts[i], Metric("total_skills", <<Cardinality(Range(AllLangs(ts[i]))), 1>>))]

align_interests(ts) ==
    [i \in DOMAIN ts |->
        Append(ts[i], Metric("common_interests", head(value_counts(AllInterests(ts[i])), 3)))]

\* variant: an unknown priority drops the last entry of every team
MetricStep_unknown_drops(ts, priority) ==
    CASE priority = "Experience Balance" -> balance_experience_levels(ts)
      [] priority = "Role Diversity" -> balance_roles(ts)
      [] priority = "Skill Diversity" -> balance_skills(ts)
      [] priority = "Interest Alignment" -> align_interests(ts)
      [] OTHER -> [i \in DOMAIN ts |->
                     IF ts[i] = <<>> THEN <<>> ELSE SubSeq(ts[i], 1, Len(ts[i]) - 1)]

\* the if / elif chain of balance_teams: an unknown priority attaches nothing
MetricStep(ts, priority) ==
    CASE priority = "Experience Balance" -> balance_experience_levels(ts)
      [] priority = "Role Diversity" -> balance_roles(ts)
      [] priority = "Skill Diversity" -> balance_skills(ts)
      [] priority = "Interest Alignment" -> align_interests(ts)
      [] OTHER -> ts

\* ------------------------------------------------------ ensure_leadership
leaders_in_team(team) == SelectSeq(team, LeadershipInterest)

\* indices of the teams without a leader, ascending
teams_needing_leaders(ts) ==
    SelectSeq([i \in 1..Len(ts) |-> i], LAMBDA i : leaders_in_team(ts[i]) = <<>>)

\* variants: only teams with more than two leaders give one away; every
\* leader of a team is given away, the first one too
available_leaders_over_two(ts) ==
    Flatten([i \in 1..Len(ts) |->
        IF Len(leaders_in_team(ts[i])) > 2 THEN Tail(leaders_in_team(ts[i])) ELSE <<>>])

available_leaders_all(ts) == Flatten([i \in 1..Len(ts) |-> leaders_in_team(ts[i])])

\* leaders_in_team[1:] of every team that has more than one leader, in team order
available_leaders(ts) ==
    Flatten([i \in 1..Len(ts) |->
        IF Len(leaders_in_team(ts[i])) > 1 THEN Tail(leaders_in_team(ts[i])) ELSE <<>>])

\* variant: the pool is served first-collected first
ensure_leadership_first_collected(ts) ==
    LET needing == teams_needing_leaders(ts)
        available == available_leaders(ts)
        served == Min(Len(needing), Len(available))
    IN [i \in DOMAIN ts |->
          IF \E j \in 1..served : needing[j] = i
          THEN LET j == CHOOSE j \in 1..served : needing[j] = i
               IN Append(ts[i], available[j])
          ELSE ts[i]]

\* variant: any leader of a team with a leader may be given away, and the
\* leader given away leaves its team
ensure_leadership_moving_any(ts) ==
    LET needing == teams_needing_leaders(ts)
        available == available_leaders_all(ts)
        served == Min(Len(needing), Len(available))
        given == {available[Len(available) - j + 1] : j \in 1..served}
    IN [i \in DOMAIN ts |->
          IF \E j \in 1..served : needing[j] = i
          THEN LET j == CHOOSE j \in 1..served : needing[j] = i
               IN Append(ts[i], available[Len(available) - j + 1])
          ELSE SelectSeq(ts[i], LAMBDA e : e \notin given)]

\* variant: the last available leader is appended but never popped
ensure_leadership_without_pop(ts) ==
    LET needing == teams_needing_leaders(ts)
        available == available_leaders(ts)
        served == Min(Len(needing), Len(available))
    IN [i \in DOMAIN ts |->
          IF \E j \in 1..served : needing[j] = i
          THEN Append(ts[i], available[Len(available)])
          ELSE ts[i]]

\* for team_idx in teams_needing_leaders[:len(available_leaders)]:
\*     teams[team_idx].append(available_leaders.pop())
ensure_leadership(ts) ==
    LET needing == teams_needing_leaders(ts)
        available == available_leaders(ts)
        served == Min(Len(needing), Len(available))
    IN [i \in DOMAIN ts |->
          IF \E j \in 1..served : needing[j] = i
          THEN LET j == CHOOSE j \in 1..served : needing[j] = i
               IN Append(ts[i], available[Len(available) - j + 1])
          ELSE ts[i]]

\* variant: the leadership pass follows whatever include_leadership says
BalanceTeams_always_pass ==
    /\ pc = "clustered"
    /\ teams' = MetricStep(teams, balance_priority)
    /\ pc' = "leadership"
    /\ UNCHANGED <<participants, inputs, feature_matrix, cluster_labels, formatted_teams,
                   returned, error, calls, kmeans_fit>>

BalanceTeams ==
    /\ pc = "clustered"
    /\ teams' = MetricStep(teams, balance_priority)
    /\ pc' = IF include_leadership THEN "leadership" ELSE "balanced"
    /\ UNCHANGED <<participants, inputs, feature_matrix, cluster_labels, formatted_teams,
                   returned, error, calls, kmeans_fit>>

EnsureLeadership ==
    /\ pc = "leadership"
    /\ teams' = ensure_leadership(teams)
    /\ pc' = "balanced"
    /\ UNCHANGED <<participants, inputs, feature_matrix, cluster_labels, formatted_teams,
                   returned, error, calls, kmeans_fit>>

\* ----------------------------------------------------------- format_teams
calculate_team_experience(members) == Mean([j \in DOMAIN members |-> ExperienceScore(members[j])])
get_common_skills(members) == head(value_counts(AllLangs(members)), 5)
get_common_interests(members) == head(value_counts(AllInterests(members)), 3)

\* members = [member for member in team_members if isinstance(member, dict) and 'name' in member]
Members(team_members) == SelectSeq(team_members, HasName)

\* variant: the 0-based position itself
TeamId_zero_based(i) == i - 1

\* 'id': i + 1 with i the 0-based position in the team list
TeamId(i) == i

\* variant: has_leader looks at the first member only
team_data_first_leader(i, members) ==
    [id |-> TeamId(i),
     members |-> members,
     size |-> Len(members),
     avg_experience |-> calculate_team_experience(members),
     role_diversity |-> Cardinality({RolePreference(members[j], "") : j \in DOMAIN members}),
     has_leader |-> LeadershipInterest(members[1]),
     common_skills |-> get_common_skills(members),
     common_interests |-> get_common_interests(members)]

team_data(i, members) ==
    [id |-> TeamId(i),
     members |-> members,
     size |-> Len(members),
     avg_experience |-> calculate_team_experience(members),
     role_diversity |-> Cardinality({RolePreference(members[j], "") : j \in DOMAIN members}),
     has_leader |-> \E j \in DOMAIN members : LeadershipInterest(members[j]),
     common_skills |-> get_common_skills(members),
     common_interests |-> get_common_interests(members)]

\* variant: a team without members is formatted too
format_teams_keep_empty(ts) == [j \in 1..Len(ts) |-> team_data(j, Members(ts[j]))]

format_teams(ts) ==
    LET kept == SelectSeq([i \in 1..Len(ts) |-> i], LAMBDA i : Members(ts[i]) # <<>>)
    IN [j \in 1..Len(kept) |-> team_data(kept[j], Members(ts[kept[j]]))]

FormatTeams ==
    /\ pc = "balanced"
    /\ formatted_teams' = format_teams(teams)
    /\ returned' = TRUE
    /\ pc' = "done"
    /\ UNCHANGED <<participants, inputs, feature_matrix, cluster_labels, teams, error,
                   calls, kmeans_fit>>

\* ------------------------------------------------------------ the system
Init ==
    /\ \E n \in 0..MaxN : \E leaders \in SUBSET (1..n) : participants = Roster(n, leaders)
    /\ num_teams \in 0..MaxTeams
    /\ team_size \in TeamSizes
    /\ balance_priority \in Priorities
    /\ include_leadership \in BOOLEAN
    /\ pc = "start"
    /\ feature_matrix = <<>>
    /\ cluster_labels = <<>>
    /\ teams = <<>>
    /\ formatted_teams = <<>>
    /\ returned = FALSE
    /\ error = NoError
    /\ call = 1
    /\ first_result = <<>>
    /\ kmeans_fit = <<>>

Next ==
    \/ CreateFeatureMatrix
    \/ ClusterParticipants
    \/ BalanceTeams
    \/ EnsureLeadership
    \/ FormatTeams

Spec == Init /\ [][Next]_vars

\* ------------------------------------------------- a second, identical call
Outcome == [returned |-> returned, error |-> error, formatted_teams |-> formatted_teams]

\* the locals of a call start afresh; the arguments are the same
StartSecondCall ==
    /\ pc \in {"done", "failed"}
    /\ call = 1
    /\ call' = 2
    /\ first_result' = <<Outcome>>
    /\ pc' = "start"
    /\ feature_matrix' = <<>>
    /\ cluster_labels' = <<>>
    /\ teams' = <<>>
    /\ formatted_teams' = <<>>
    /\ returned' = FALSE
    /\ error' = NoError
    /\ UNCHANGED <<num_teams, include_leadership, kmeans_fit>>

\* matcher.generate_teams(...) again on the same TeamMatcher: self.participants
\* are the dicts the first call wrote skills_text and interests_text onto
CallAgain ==
    /\ StartSecondCall
    /\ UNCHANGED <<participants, team_size, balance_priority>>

\* TeamMatcher(participants, ...).generate_teams(...) with an identical
\* participant list that the first call has not touched
CallOnFreshMatcher ==
    /\ StartSecondCall
    /\ participants' = [i \in DOMAIN participants |->
                          [participants[i] EXCEPT !.skills_text = Unset, !.interests_text = Unset]]
    /\ UNCHANGED <<team_size, balance_priority>>

NextAgain == Next \/ CallAgain \/ CallOnFreshMatcher

SpecAgain == Init /\ [][NextAgain]_vars

\* ------------------------------------- a second call with another team_size
\* matcher.generate_teams(num_teams, other_size, ...): every argument but
\* team_size is the one of the first call
CallWithOtherTeamSize ==
    /\ StartSecondCall
    /\ team_size' \in TeamSizes \ {team_size}
    /\ UNCHANGED <<participants, balance_priority>>

NextSize == Next \/ CallWithOtherTeamSize

SpecSize == Init /\ [][NextSize]_vars

\* -------------------------------- a second call with another balance_priority
\* the four policies balance_teams knows
KnownPriorities == {"Experience Balance", "Role Diversity", "Skill Diversity",
                    "Interest Alignment"}

\* matcher.generate_teams(num_teams, team_size, other_priority, ...): a known
\* policy after an unknown one, or an unknown one after a known one
CallWithOtherPriority ==
    /\ StartSecondCall
    /\ balance_priority' \in (IF balance_priority \in KnownPriorities
                              THEN Priorities \ KnownPriorities ELSE KnownPriorities)
    /\ UNCHANGED <<participants, team_size>>

NextPriority == Next \/ CallWithOtherPriority

SpecPriority == Init /\ [][NextPriority]_vars

\* ------------------------------------------------- the encoder on its own
\* Rosters for create_feature_matrix: a role of the vocabulary, no role key
\* or a role outside the vocabulary; no language, one, or one that is a stop
\* word; no interest or two.
EncodedRoles == {"DevOps", Absent, "QA Engineer"}
EncodedLangs == {<<>>, <<"Python">>, <<"Go">>}
EncodedInterests == {<<>>, <<"Web", "AI">>}

InitEncode ==
    /\ \E n \in 0..MaxEncoded :
          \E r \in [1..n -> EncodedRoles] : \E l \in [1..n -> EncodedLangs] :
          \E t \in [1..n -> EncodedInterests] :
              participants = [i \in 1..n |->
                  [Participant(i, FALSE) EXCEPT !.role_preference = r[i],
                                                !.programming_langs = l[i],
                                                !.interests = t[i]]]
    /\ num_teams = 1
    /\ team_size = 2
    /\ balance_priority = "Other"
    /\ include_leadership = FALSE
    /\ pc = "start"
    /\ feature_matrix = <<>>
    /\ cluster_labels = <<>>
    /\ teams = <<>>
    /\ formatted_teams = <<>>
    /\ returned = FALSE
    /\ error = NoError
    /\ call = 1
    /\ first_result = <<>>
    /\ kmeans_fit = <<>>

NextEncode == CreateFeatureMatrix \/ ClusterParticipants

SpecEncode == InitEncode /\ [][NextEncode]_vars

\* ------------------------------------------- the leadership pass on its own
\* ensure_leadership on the clusters of any labelling of a roster into one to
\* MaxTeams clusters, after the metric step of one of two priorities.
PassPriorities == {"Other", "Role Diversity"}

InitPass ==
    /\ \E n \in 0..MaxPassed : \E leaders \in SUBSET (1..n) : \E k \in 1..MaxTeams :
       \E labels \in [1..n -> 0..(k - 1)] : \E priority \in PassPriorities :
          /\ participants = Roster(n, leaders)
          /\ num_teams = k
          /\ cluster_labels = labels
          /\ balance_priority = priority
          /\ teams = MetricStep(GroupByCluster(Roster(n, leaders), labels, k), priority)
    /\ team_size = 2
    /\ include_leadership = TRUE
    /\ pc = "leadership"
    /\ feature_matrix = <<>>
    /\ formatted_teams = <<>>
    /\ returned = FALSE
    /\ error = NoError
    /\ call = 1
    /\ first_result = <<>>
    /\ kmeans_fit = <<>>

NextPass == EnsureLeadership \/ FormatTeams

SpecPass == InitPass /\ [][NextPass]_vars

\* ----------------------------------------------- the formatter on its own
\* format_teams on one or two clusters of a roster in which any participant
\* may lack the key 'name' or the key 'role_preference', with or without the
\* metric entries of the balance step.
InitFormat ==
    /\ \E n \in 0..MaxFormatted : \E leaders \in SUBSET (1..n) : \E named \in SUBSET (1..n) :
       \E with_role \in SUBSET (1..n) : \E k \in {1, 2} :
       \E labels \in [1..n -> 0..(k - 1)] : \E priority \in PassPriorities :
          LET roster == [i \in 1..n |->
                  [Participant(i, i \in leaders) EXCEPT
                      !.name = IF i \in named THEN i ELSE NoName,
                      !.role_preference = IF i \in with_role THEN @ ELSE Absent]]
          IN /\ participants = roster
             /\ num_teams = k
             /\ cluster_labels = labels
             /\ balance_priority = priority
             /\ teams = MetricStep(GroupByCluster(roster, labels, k), priority)
    /\ team_size = 2
    /\ include_leadership = FALSE
    /\ pc = "balanced"
    /\ feature_matrix = <<>>
    /\ formatted_teams = <<>>
    /\ returned = FALSE
    /\ error = NoError
    /\ call = 1
    /\ first_result = <<>>
    /\ kmeans_fit = <<>>

SpecFormat == InitFormat /\ [][FormatTeams]_vars

\* ------------------------------------------ format_teams on a given team
\* The skills and interests of a formatted team: the words of a list s are
\* dealt to two members, member 1 taking s[1..a] as programming_langs and
\* s[a+1..b] as frameworks, member 2 the rest as programming_langs; the
\* interests are s[1..a] and s[a+1..]. Words are named in order of first
\* appearance (renaming the words does not change what format_teams does).
CommonWords == <<"A", "B", "C", "D", "E", "F">>

WordLists ==
    UNION {{s \in [1..len -> 1..Len(CommonWords)] :
                \A i \in 1..len : \A w \in 1..(s[i] - 1) : \E j \in 1..(i - 1) : s[j] = w}
           : len \in 0..MaxWords}

Skilled(i, langs, frameworks, interests) ==
    [Participant(i, FALSE) EXCEPT !.programming_langs = langs,
                                  !.frameworks = frameworks,
                                  !.interests = interests]

InitCommon ==
    /\ \E s \in WordLists : \E a \in 0..Len(s) : \E b \in a..Len(s) :
          LET words == [i \in 1..Len(s) |-> CommonWords[s[i]]]
          IN participants =
                <<Skilled(1, SubSeq(words, 1, a), SubSeq(words, a + 1, b), SubSeq(words, 1, a)),
                  Skilled(2, SubSeq(words, b + 1, Len(s)), <<>>, SubSeq(words, a + 1, Len(s)))>>
    /\ teams = <<<<Ref(1), Ref(2)>>>>
    /\ num_teams = 1
    /\ team_size = 2
    /\ balance_priority = "Other"
    /\ include_leadership = FALSE
    /\ pc = "balanced"
    /\ feature_matrix = <<>>
    /\ cluster_labels = <<0, 0>>
    /\ formatted_teams = <<>>
    /\ returned = FALSE
    /\ error = NoError
    /\ call = 1
    /\ first_result = <<>>
    /\ kmeans_fit = <<>>

SpecCommon == InitCommon /\ [][FormatTeams]_vars

\* ================================================================ claims
Terminated == pc \in {"done", "failed"}

\* how often participant i is listed in the returned teams
Occurrences(i) ==
    SumSeq([t \in DOMAIN formatted_teams |->
        Cardinality({j \in DOMAIN formatted_teams[t].members : formatted_teams[t].members[j].ref = i})])

\* the number of participant entries (metric entries not counted) of a team list
ParticipantEntries(ts) ==
    SumSeq([i \in DOMAIN ts |-> Cardinality({j \in DOMAIN ts[i] : ts[i][j].kind = "participant"})])

\* C1: when generate_teams returns for a roster with n >= 2 * num_teams, every
\* participant is listed exactly once in the returned teams, or not at all
\* when the team of its cluster was discarded as empty.
C1_Partition ==
    (pc = "done" /\ Len(participants) >= 2 * num_teams) =>
        \A i \in DOMAIN participants :
            \/ Occurrences(i) = 1
            \/ /\ Occurrences(i) = 0
               /\ \A t \in DOMAIN formatted_teams : formatted_teams[t].id # cluster_labels[i] + 1

\* C2: the leadership pass keeps the total number of participant entries of
\* the team list, and a leader it appends to a team is no longer an entry of
\* any other team.
C2_Conserved ==
    [][EnsureLeadership =>
        /\ ParticipantEntries(teams') = ParticipantEntries(teams)
        /\ \A i \in DOMAIN teams : Len(teams'[i]) > Len(teams[i]) =>
              \A h \in (DOMAIN teams) \ {i} :
                  \A j \in DOMAIN teams'[h] : teams'[h][j] # teams'[i][Len(teams'[i])]]_vars

\* C3: once clustering has succeeded the team list has exactly
\* min(num_teams, floor(n/2)) clusters, a number between 1 and floor(n/2),
\* and a request above floor(n/2) for a roster of at least two ends in a
\* returned list, never in an error.
C3_Capping ==
    /\ pc \in {"clustered", "leadership", "balanced", "done"} =>
          /\ Len(teams) = (IF num_teams <= Len(participants) \div 2
                           THEN num_teams ELSE Len(participants) \div 2)
          /\ 1 <= Len(teams)
          /\ Len(teams) <= Len(participants) \div 2
    /\ (Terminated /\ num_teams > Len(participants) \div 2 /\ Len(participants) >= 2) =>
          (pc = "done" /\ returned /\ error = NoError)

\* C3 witness: a call that asked for more teams than floor(n/2) returned,
\* with floor(n/2) clusters.
C3_Witness ==
    /\ pc = "done"
    /\ num_teams > Len(participants) \div 2
    /\ Len(teams) = Len(participants) \div 2
    /\ Len(teams) = 2

\* C4 (as stated): a roster with fewer participants than twice the requested
\* team count always ends in the not-enough-participants error, nothing returned.
C4_FailsBelowTwiceRequested ==
    (Terminated /\ Len(participants) < 2 * num_teams) =>
        (pc = "failed" /\ error = NotEnough /\ ~returned)

\* C4 (amended): a roster of fewer than two participants always ends in a
\* ValueError with nothing returned, while a roster of two or more that is
\* smaller than twice the requested count ends in a returned list of
\* floor(n/2) clusters.
C4_FailsBelowTwo ==
    /\ (Terminated /\ Len(participants) < 2) =>
          (pc = "failed" /\ error.type = "ValueError" /\ ~returned /\ formatted_teams = <<>>)
    /\ (Terminated /\ Len(participants) >= 2 /\ Len(participants) < 2 * num_teams) =>
          (pc = "done" /\ returned /\ Len(teams) = Len(participants) \div 2)

\* C4 witness: a one-participant roster failed, or a three-participant roster
\* asked for two teams and got one.
C4_Witness ==
    \/ (pc = "failed" /\ Len(participants) = 1 /\ num_teams = 1 /\ error = NotEnough)
    \/ (pc = "done" /\ Len(participants) = 3 /\ num_teams = 2 /\ Len(teams) = 1)

ClusterLeaders(c) ==
    {i \in DOMAIN participants : cluster_labels[i] = c - 1 /\ participants[i].leadership_interest}
ClusterSize(c) == Cardinality({i \in DOMAIN participants : cluster_labels[i] = c - 1})
Deficient == {c \in DOMAIN teams : ClusterLeaders(c) = {}}
Surplus ==
    SumSeq([c \in DOMAIN teams |->
        IF Cardinality(ClusterLeaders(c)) > 1 THEN Cardinality(ClusterLeaders(c)) - 1 ELSE 0])
LeaderlessOutput == {t \in DOMAIN formatted_teams : ~formatted_teams[t].has_leader}

\* C6: with include_leadership set, when the clusters hold at least as many
\* surplus leaders as there are clusters without a leader, every returned team
\* reports has_leader = TRUE.
C6_FeasibleAllLed ==
    (pc = "done" /\ include_leadership /\ Surplus >= Cardinality(Deficient)) =>
        \A t \in DOMAIN formatted_teams : formatted_teams[t].has_leader

\* C6 witness: two clusters, both leaders in one of them, the other one not
\* empty, and both returned teams report a leader.
C6_Witness ==
    /\ pc = "done"
    /\ include_leadership
    /\ Len(teams) = 2
    /\ \E c \in Deficient : ClusterSize(c) >= 2
    /\ Surplus >= Cardinality(Deficient)
    /\ Len(formatted_teams) = 2
    /\ \A t \in DOMAIN formatted_teams : formatted_teams[t].has_leader

\* C7: with fewer surplus leaders than clusters without a leader the call
\* raises nothing and returns; the D - S unserved clusters are the returned
\* teams with has_leader = FALSE (or were empty and discarded); with exactly
\* one leader in the roster exactly one returned team has has_leader = TRUE.
C7_InfeasibleReported ==
    /\ (pc \in {"balanced", "done"} /\ include_leadership /\ Surplus < Cardinality(Deficient)) =>
          error = NoError
    /\ (pc = "done" /\ include_leadership /\ Surplus < Cardinality(Deficient)) =>
          /\ returned
          /\ \A t \in LeaderlessOutput : formatted_teams[t].id \in Deficient
          /\ Cardinality(LeaderlessOutput) + (Len(teams) - Len(formatted_teams))
                = Cardinality(Deficient) - Surplus
    /\ (pc = "done" /\ Cardinality({i \in DOMAIN participants : participants[i].leadership_interest}) = 1) =>
          Cardinality((DOMAIN formatted_teams) \ LeaderlessOutput) = 1

\* C7 witness: one leader in the roster, the pass ran, two teams returned, one
\* of them without a leader.
C7_Witness ==
    /\ pc = "done"
    /\ include_leadership
    /\ Cardinality({i \in DOMAIN participants : participants[i].leadership_interest}) = 1
    /\ Surplus < Cardinality(Deficient)
    /\ Len(formatted_teams) = 2
    /\ Cardinality(LeaderlessOutput) = 1

\* C8: a call ends either with the complete list returned (one team for
\* every cluster that has a member, no error) or with one error and nothing
\* returned; before the end nothing is returned.
C8_Atomic ==
    /\ returned =>
          /\ pc = "done"
          /\ error = NoError
          /\ Len(formatted_teams) =
                Cardinality({c \in DOMAIN teams : \E j \in DOMAIN teams[c] : teams[c][j].kind = "participant"})
    /\ ~returned => formatted_teams = <<>>
    /\ pc = "done" => returned
    /\ pc = "failed" => (~returned /\ error # NoError)
    /\ error # NoError => pc = "failed"

\* C8 witness: the encoding stage had succeeded when the clustering stage
\* failed, and nothing was returned.
C8_Witness ==
    /\ pc = "failed"
    /\ feature_matrix # <<>>
    /\ error = NotEnough
    /\ ~returned

\* C9: a second call with the same participants and arguments, on the same
\* TeamMatcher or on a fresh one, ends as the first did: the same error, or
\* the same returned list (members, ids and aggregates).
C9_Deterministic ==
    (call = 2 /\ Terminated) =>
        /\ first_result[1].returned = returned
        /\ first_result[1].error = error
        /\ first_result[1].formatted_teams = formatted_teams

\* C9 witness: the second call returned two teams after a leadership pass.
C9_Witness ==
    /\ call = 2
    /\ pc = "done"
    /\ include_leadership
    /\ Len(formatted_teams) = 2
    /\ first_result[1].formatted_teams = formatted_teams

\* C10: the j-th returned team has id j.
C10_SequentialIds ==
    pc = "done" => \A j \in DOMAIN formatted_teams : formatted_teams[j].id = j

\* C11: no step of a generate_teams call changes a participant record: the
\* records keep the fields and values they had before the call.
C11_ParticipantsImmutable ==
    [][participants' = participants]_vars

\* the participant entries of a team, in team order
ParticipantsOf(team) == SelectSeq(team, LAMBDA e : e.kind = "participant")

\* C12: the metric step of balance_teams and the formatting step leave the
\* participant entries of every team as they were, in the same order; for
\* each of the four known priorities the metric step appends exactly one
\* metric entry to every team and nothing else.
C12_MetricKeepsMembership ==
    [][(pc \in {"clustered", "balanced"}) =>
        /\ Len(teams') = Len(teams)
        /\ \A i \in DOMAIN teams : ParticipantsOf(teams'[i]) = ParticipantsOf(teams[i])
        /\ (pc = "clustered" /\ balance_priority \in {"Experience Balance", "Role Diversity",
                                                      "Skill Diversity", "Interest Alignment"}) =>
              \A i \in DOMAIN teams :
                  /\ Len(teams'[i]) = Len(teams[i]) + 1
                  /\ SubSeq(teams'[i], 1, Len(teams[i])) = teams[i]
                  /\ teams'[i][Len(teams'[i])].kind = "metric"]_vars

\* C12 witness: the metric step of the Experience Balance priority has run on
\* two clusters of two members each.
C12_Witness ==
    /\ pc \in {"leadership", "balanced"}
    /\ balance_priority = "Experience Balance"
    /\ Len(teams) = 2
    /\ \A i \in DOMAIN teams :
          /\ Len(ParticipantsOf(teams[i])) = 2
          /\ teams[i][Len(teams[i])].kind = "metric"

\* C13: a second call that differs from the first only in team_size ends as
\* the first did: the same error, or the same returned list.
C13_TeamSizeAdvisory ==
    (call = 2 /\ Terminated) =>
        /\ returned = first_result[1].returned
        /\ error = first_result[1].error
        /\ formatted_teams = first_result[1].formatted_teams

\* C13 witness: the second call, made with another team_size, returned the
\* list of the first call, in which a team has a size other than either
\* team_size.
C13_Witness ==
    /\ call = 2
    /\ pc = "done"
    /\ formatted_teams = first_result[1].formatted_teams
    /\ \E t \in DOMAIN formatted_teams : formatted_teams[t].size \notin TeamSizes

\* the words of the members of a returned team, member after member
SkillsOf(members) ==
    Flatten([j \in DOMAIN members |->
        participants[members[j].ref].programming_langs \o participants[members[j].ref].frameworks])
InterestsOf(members) == Flatten([j \in DOMAIN members |-> participants[members[j].ref].interests])

Occurs(values, v) == Cardinality({i \in DOMAIN values : values[i] = v})
FirstAt(values, v) == CHOOSE i \in DOMAIN values : values[i] = v /\ \A j \in 1..(i - 1) : values[j] # v
\* v comes before w: a higher count, or the same count and an earlier first occurrence
Before(values, v, w) ==
    \/ Occurs(values, v) > Occurs(values, w)
    \/ Occurs(values, v) = Occurs(values, w) /\ FirstAt(values, v) < FirstAt(values, w)

\* out lists the k values that come first, in that order (all of them when
\* there are fewer than k)
TopByCount(out, values, k) ==
    /\ Len(out) = (IF Cardinality({values[i] : i \in DOMAIN values}) <= k
                   THEN Cardinality({values[i] : i \in DOMAIN values}) ELSE k)
    /\ \A a \in DOMAIN out : \E i \in DOMAIN values : values[i] = out[a]
    /\ \A a, b \in DOMAIN out : a < b => Before(values, out[a], out[b])
    /\ \A i \in DOMAIN values :
          (\A a \in DOMAIN out : out[a] # values[i]) =>
              \A a \in DOMAIN out : Before(values, out[a], values[i])

AllTextEmpty ==
    \A i \in DOMAIN participants :
        /\ participants[i].programming_langs = <<>>
        /\ participants[i].frameworks = <<>>
        /\ participants[i].interests = <<>>

\* C15: when every participant has empty skills and interests text the
\* encoder raises nothing: every row is the 11 structured columns followed by
\* one zero column for the skills and one for the interests, and a roster of
\* two or more goes on to be clustered.
C15_EmptyTextFallsBack ==
    AllTextEmpty =>
        /\ (pc = "failed" /\ Len(participants) >= 1) => error = NotEnough
        /\ (pc = "failed" /\ Len(participants) >= 2) => num_teams <= 0
        /\ (pc \in {"encoded", "clustered"}) =>
              /\ error = NoError
              /\ Len(feature_matrix) = Len(participants)
              /\ \A i \in DOMAIN feature_matrix :
                    /\ Len(feature_matrix[i]) = 13
                    /\ feature_matrix[i][12] = 0
                    /\ feature_matrix[i][13] = 0

\* C15 witness: a roster of three without any skill or interest was encoded
\* and clustered.
C15_Witness ==
    /\ AllTextEmpty
    /\ Len(participants) = 3
    /\ pc = "clustered"
    /\ Len(feature_matrix) = 3

\* the role columns of row i of the feature matrix (columns 4 to 11)
RoleColumns(i) == SubSeq(feature_matrix[i], 4, 11)

\* C20: for every participant, whatever its role_preference (a role of the
\* vocabulary, absent, or a value outside the vocabulary), the encoded role
\* vector has exactly one 1 and seven 0, and a value outside the vocabulary
\* is encoded as Full Stack Developer.
C20_RoleVectorOneHot ==
    (pc \in {"encoded", "clustered"}) =>
        \A i \in DOMAIN participants :
            /\ Len(RoleColumns(i)) = 8
            /\ Cardinality({c \in 1..8 : RoleColumns(i)[c] = 1}) = 1
            /\ Cardinality({c \in 1..8 : RoleColumns(i)[c] = 0}) = 7
            /\ participants[i].role_preference \notin Range(roles)
                  => RoleColumns(i) = role_vector("Full Stack Developer")

\* the last entry of a team
Last(team) == team[Len(team)]

\* entry e is a participant that declared leadership interest
IsLeader(e) == e.kind = "participant" /\ participants[e.ref].leadership_interest

\* participant i is a leader of a cluster that holds more than one leader
IsSurplusLeader(i) ==
    \E c \in DOMAIN teams : i \in ClusterLeaders(c) /\ Cardinality(ClusterLeaders(c)) > 1

\* the teams the pass changes
Receiving == {c \in DOMAIN teams : teams'[c] # teams[c]}

\* C16: with D deficient teams and S surplus leaders before the pass, exactly
\* min(D, S) deficient teams each receive exactly one leader, no leader is
\* given to two teams, no team that had a leader receives one, and max(0, D - S)
\* teams are without a leader after the pass.
C16_OneToOne ==
    [][pc = "leadership" =>
        LET D == Cardinality(Deficient)
            S == Surplus
        IN /\ DOMAIN teams' = DOMAIN teams
           /\ Cardinality(Receiving) = Min(D, S)
           /\ \A c \in Receiving :
                /\ c \in Deficient
                /\ Len(teams'[c]) = Len(teams[c]) + 1
                /\ SubSeq(teams'[c], 1, Len(teams[c])) = teams[c]
                /\ IsLeader(Last(teams'[c]))
                /\ IsSurplusLeader(Last(teams'[c]).ref)
           /\ \A c, d \in Receiving : c # d => Last(teams'[c]).ref # Last(teams'[d]).ref
           /\ Cardinality({c \in DOMAIN teams' :
                             ~\E j \in DOMAIN teams'[c] : IsLeader(teams'[c][j])})
                = (IF D > S THEN D - S ELSE 0)
    ]_vars

\* C16 witness: after the pass two teams end with a leader of another
\* cluster, and the two leaders differ.
C16_Witness ==
    /\ pc = "balanced"
    /\ \E c, d \in DOMAIN teams :
          /\ c # d
          /\ teams[c] # <<>> /\ teams[d] # <<>>
          /\ IsLeader(Last(teams[c])) /\ IsLeader(Last(teams[d]))
          /\ cluster_labels[Last(teams[c]).ref] # c - 1
          /\ cluster_labels[Last(teams[d]).ref] # d - 1
          /\ Last(teams[c]).ref # Last(teams[d]).ref

\* the members lists of the returned teams, in order
OutputMembers == [t \in DOMAIN formatted_teams |-> formatted_teams[t].members]

\* C17: format_teams removes only the metric entries: the members of the
\* returned teams are, team by team and in order, the participant entries of
\* the teams that hold a participant, a participant without 'name' included,
\* and no metric entry is listed as a member.
C17_NoSilentTruncation ==
    pc = "done" =>
        /\ OutputMembers =
              SelectSeq([c \in DOMAIN teams |-> ParticipantsOf(teams[c])], LAMBDA m : m # <<>>)
        /\ \A t \in DOMAIN formatted_teams : \A j \in DOMAIN formatted_teams[t].members :
              formatted_teams[t].members[j].kind = "participant"

\* the role_preference values of the members; a member without the key counts
\* as one more value
RoleValues(members) == {participants[members[j].ref].role_preference : j \in DOMAIN members}

\* C19: for every returned team size is the number of members, has_leader
\* holds iff some member declared leadership interest, role_diversity is the
\* number of distinct role_preference values of the members (between 1 and
\* size) and avg_experience is the mean of the members' experience scores
\* (between 1 and 4).
C19_SummaryAgrees ==
    pc = "done" =>
        \A t \in DOMAIN formatted_teams :
            LET team == formatted_teams[t]
                members == team.members
                scores == [j \in DOMAIN members |->
                              exp_mapping(participants[members[j].ref].experience_level)]
            IN /\ team.size = Len(members)
               /\ team.has_leader <=>
                     \E j \in DOMAIN members : participants[members[j].ref].leadership_interest
               /\ team.role_diversity = Cardinality(RoleValues(members))
               /\ 1 <= team.role_diversity /\ team.role_diversity <= team.size
               /\ team.avg_experience = <<SumSeq(scores), Len(members)>>
               /\ team.avg_experience[2] > 0
               /\ team.avg_experience[2] <= team.avg_experience[1]
               /\ team.avg_experience[1] <= 4 * team.avg_experience[2]

\* C19 witness: a returned team of two members with two roles whose only
\* leader is its second member.
C19_Witness ==
    /\ pc = "done"
    /\ \E t \in DOMAIN formatted_teams :
          /\ formatted_teams[t].size = 2
          /\ formatted_teams[t].role_diversity = 2
          /\ formatted_teams[t].has_leader
          /\ ~participants[formatted_teams[t].members[1].ref].leadership_interest
          /\ formatted_teams[t].avg_experience[1] > 2

\* the teams whose entries are all metric entries
Bookkeeping == {c \in DOMAIN teams : ParticipantsOf(teams[c]) = <<>>}

\* C18: every team returned by format_teams has at least one member; a team
\* that holds metric entries only (an empty cluster that received no leader)
\* is left out of the returned list and raises nothing.
C18_NoEmptyTeam ==
    pc = "done" =>
        /\ error = NoError
        /\ \A t \in DOMAIN formatted_teams :
              /\ formatted_teams[t].members # <<>>
              /\ formatted_teams[t].size >= 1
              /\ formatted_teams[t].id \notin Bookkeeping
        /\ Len(formatted_teams) = Len(teams) - Cardinality(Bookkeeping)

\* C18 witness: a call returned one team of two clusters, the other cluster
\* being empty but for its metric entry.
C18_Witness ==
    /\ pc = "done"
    /\ Len(teams) = 2
    /\ Len(formatted_teams) = 1
    /\ \E c \in Bookkeeping : teams[c] # <<>>

\* the participants fit_predict put in cluster c, in roster order
ClusterMembers(c) ==
    LET idx == SelectSeq([i \in 1..Len(participants) |-> i], LAMBDA i : cluster_labels[i] = c - 1)
    IN [j \in 1..Len(idx) |-> [kind |-> "participant", ref |-> idx[j]]]

\* C21: without include_leadership the leadership pass is not run: after
\* balance_teams every team holds the participants of its cluster and a
\* returned team reports a leader iff its cluster held one; with
\* include_leadership the pass follows the metric step whatever the priority.
C21_PassOnlyWhenAsked ==
    [][/\ pc = "clustered" =>
            /\ pc' = (IF include_leadership THEN "leadership" ELSE "balanced")
            /\ \A c \in DOMAIN teams : ParticipantsOf(teams'[c]) = ClusterMembers(c)
       /\ pc = "leadership" =>
            /\ include_leadership
            /\ pc' = "balanced"
            /\ (Surplus > 0 /\ Deficient # {}) => teams' # teams
       /\ (pc = "balanced" /\ ~include_leadership) =>
            /\ \A c \in DOMAIN teams : ParticipantsOf(teams[c]) = ClusterMembers(c)
            /\ \A t \in DOMAIN formatted_teams' :
                  formatted_teams'[t].has_leader <=> ClusterLeaders(formatted_teams'[t].id) # {}
    ]_vars

\* C21 witness: without include_leadership a call returned a team without a
\* leader although another cluster held two.
C21_Witness ==
    /\ pc = "done"
    /\ ~include_leadership
    /\ Surplus > 0
    /\ \E t \in DOMAIN formatted_teams : ~formatted_teams[t].has_leader

\* the role_diversity entries of a team
RoleMetrics(team) == SelectSeq(team, LAMBDA e : e.kind = "metric" /\ e.key = "role_diversity")

\* the distinct role_preference values of the participants of cluster c
ClusterRoles(c) ==
    {participants[i].role_preference : i \in {j \in DOMAIN participants : cluster_labels[j] = c - 1}}

\* C22: the Role Diversity metric of a team is the number of distinct
\* role_preference values of its participants over the number of its
\* participants, metric entries not counted, and 0 for an empty team.
C22_RoleDiversityRatio ==
    (balance_priority = "Role Diversity" /\ pc \in {"leadership", "balanced", "done"}) =>
        \A c \in DOMAIN teams :
            /\ Len(RoleMetrics(teams[c])) = 1
            /\ RoleMetrics(teams[c])[1].value =
                  (IF ClusterSize(c) = 0 THEN <<0, 1>>
                   ELSE <<Cardinality(ClusterRoles(c)), ClusterSize(c)>>)

\* C22 witness: under Role Diversity one cluster is empty, with metric 0, and
\* the other holds three participants of which two share a role.
C22_Witness ==
    /\ balance_priority = "Role Diversity"
    /\ pc = "balanced"
    /\ \E c, d \in DOMAIN teams :
          /\ ClusterSize(c) = 0
          /\ RoleMetrics(teams[c])[1].value = <<0, 1>>
          /\ ClusterSize(d) >= 3
          /\ RoleMetrics(teams[d])[1].value[1] < RoleMetrics(teams[d])[1].value[2]

\* the number of columns of a text block: one per lowercased word of the
\* texts that is not a stop word, or the single fallback column
TextColumns(texts) ==
    LET words == UNION {{Lower(texts[i][j]) : j \in DOMAIN texts[i]} : i \in DOMAIN texts} \ StopWords
    IN IF words = {} THEN 1 ELSE Cardinality(words)

\* C23: the rows of one feature matrix all have the same length, the 11
\* structured columns plus the columns of the shared skills vocabulary plus
\* those of the shared interests vocabulary, and there is one row per
\* participant, in roster order.
C23_UniformRows ==
    (pc \in {"encoded", "clustered"}) =>
        LET skills == TextColumns([i \in DOMAIN participants |->
                          participants[i].programming_langs \o participants[i].frameworks])
            interests == TextColumns([i \in DOMAIN participants |-> participants[i].interests])
        IN /\ Len(feature_matrix) = Len(participants)
           /\ \A i \in DOMAIN feature_matrix :
                 /\ Len(feature_matrix[i]) = 11 + skills + interests
                 /\ SubSeq(feature_matrix[i], 1, 11) = feature_vector(participants[i])

\* C23 witness: a participant with a language and two interests and one
\* with neither were encoded into rows of 14 columns.
C23_Witness ==
    /\ pc = "encoded"
    /\ Len(participants) >= 2
    /\ \E i, j \in DOMAIN participants :
          /\ participants[i].programming_langs = <<"Python">>
          /\ participants[i].interests # <<>>
          /\ participants[j].programming_langs = <<>>
          /\ participants[j].interests = <<>>
          /\ Len(feature_matrix[i]) = 14
          /\ Len(feature_matrix[j]) = 14

\* team c of a team list holds a leader-flagged member
HasLeader(ts, c) == \E j \in DOMAIN ts[c] : IsLeader(ts[c][j])

\* C24: the leadership pass never takes the last leader of a team: a team
\* that holds a leader before ensure_leadership holds one after it.
C24_KeepsALeader ==
    [][pc = "leadership" =>
          \A c \in DOMAIN teams : HasLeader(teams, c) => HasLeader(teams', c)]_vars

\* C24 witness: after the pass a team ends with a leader of another cluster,
\* and the cluster that leader came from still lists a leader.
C24_Witness ==
    /\ pc = "balanced"
    /\ \E c, d \in DOMAIN teams :
          /\ c # d
          /\ teams[c] # <<>>
          /\ IsLeader(Last(teams[c]))
          /\ cluster_labels[Last(teams[c]).ref] = d - 1
          /\ HasLeader(teams, d)

\* C25: generate_teams returns at most k = min(num_teams, floor(n / 2))
\* teams; their ids are strictly increasing and lie in 1..k, and the team
\* with id c starts with the participants of cluster c.
C25_AtMostKInClusterOrder ==
    pc = "done" =>
        LET k == Min(num_teams, Len(participants) \div 2)
        IN /\ Len(formatted_teams) <= k
           /\ \A t \in DOMAIN formatted_teams :
                 /\ formatted_teams[t].id \in 1..k
                 /\ t > 1 => formatted_teams[t - 1].id < formatted_teams[t].id
                 /\ SubSeq(formatted_teams[t].members, 1, ClusterSize(formatted_teams[t].id))
                       = ClusterMembers(formatted_teams[t].id)

\* C25 witness: with two clusters, the first one empty, a call returned the
\* single team of id 2.
C25_Witness ==
    /\ pc = "done"
    /\ Len(teams) = 2
    /\ Len(formatted_teams) = 1
    /\ formatted_teams[1].id = 2
    /\ formatted_teams[1].size >= 2

\* C26: a balance_priority outside the four known policies raises nothing:
\* balance_teams attaches no metric entry and leaves every team as the
\* clusterer built it but for the leadership pass, and a call with an unknown
\* policy and a call with a known one on the same input return the same teams.
C26_UnknownPriorityHarmless ==
    [][/\ (pc = "clustered" /\ balance_priority \notin KnownPriorities) =>
            /\ teams' = teams
            /\ error' = NoError
            /\ pc' # "failed"
       /\ (pc = "leadership" /\ balance_priority \notin KnownPriorities) =>
            /\ error' = NoError
            /\ \A c \in DOMAIN teams' : ParticipantsOf(teams'[c]) = teams'[c]
       /\ (call' = 2 /\ pc' \in {"done", "failed"}) =>
            /\ returned' = first_result'[1].returned
            /\ error' = first_result'[1].error
            /\ formatted_teams' = first_result'[1].formatted_teams
    ]_vars

\* C26 witness: a call with an unknown policy returned, after a call with a
\* known one, the same two teams.
C26_Witness ==
    /\ call = 2
    /\ pc = "done"
    /\ balance_priority \notin KnownPriorities
    /\ Len(formatted_teams) = 2
    /\ formatted_teams = first_result[1].formatted_teams

\* the leaders of cluster c, in roster order
ClusterLeaderSeq(c) ==
    SelectSeq([i \in 1..Len(participants) |-> i],
              LAMBDA i : cluster_labels[i] = c - 1 /\ participants[i].leadership_interest)

\* the surplus leaders in the order they are collected: cluster after
\* cluster, every leader of a cluster but its first
Pool ==
    Flatten([c \in 1..Len(teams) |->
        IF Len(ClusterLeaderSeq(c)) > 1 THEN Tail(ClusterLeaderSeq(c)) ELSE <<>>])

\* the number of deficient clusters up to and including c
Rank(c) == Cardinality({d \in Deficient : d <= c})

\* the leader the deficient cluster c is due, when the pool reaches that far
Due(c) == [kind |-> "participant", ref |-> Pool[Len(Pool) - Rank(c) + 1]]

\* C27: an empty cluster is a deficient team for the leadership pass; the
\* deficient teams are served by ascending index, each with the last leader
\* still in the pool. A served empty cluster is returned by format_teams as
\* a team of that one leader, an unserved one is left out.
C27_EmptyClusterServed ==
    [][/\ pc = "leadership" =>
            \A c \in DOMAIN teams :
                /\ ClusterSize(c) = 0 => c \in Deficient
                /\ (c \in Deficient /\ Rank(c) <= Len(Pool)) => teams'[c] = Append(teams[c], Due(c))
                /\ (c \in Deficient /\ Rank(c) > Len(Pool)) => teams'[c] = teams[c]
       /\ (pc = "balanced" /\ include_leadership) =>
            \A c \in DOMAIN teams :
                ClusterSize(c) = 0 =>
                    IF Rank(c) <= Len(Pool)
                    THEN \E t \in DOMAIN formatted_teams' :
                            /\ formatted_teams'[t].id = c
                            /\ formatted_teams'[t].members = <<Due(c)>>
                            /\ formatted_teams'[t].size = 1
                    ELSE \A t \in DOMAIN formatted_teams' : formatted_teams'[t].id # c
    ]_vars

\* C27 witness: with two leaders in the pool, the empty third cluster was
\* served second, with the leader collected first, and came back as a team
\* of that leader alone.
C27_Witness ==
    /\ pc = "done"
    /\ Len(Pool) = 2
    /\ Len(teams) = 3
    /\ ClusterSize(3) = 0
    /\ Rank(3) = 2
    /\ \E t \in DOMAIN formatted_teams :
          /\ formatted_teams[t].id = 3
          /\ formatted_teams[t].members = <<[kind |-> "participant", ref |-> Pool[1]]>>

====
